---- MODULE Spec2Model ----
(***************************************************************************)
(* Healthcare query routing and DSL generation.                            *)
(*                                                                         *)
(* Part 1 models HealthcareQueryProcessor (healthcare_query_processor.py): *)
(* route_healthcare_query run by several workers against one processor,    *)
(* with every `self.x += 1` split into its load and its store, because the *)
(* code takes no lock around them.                                         *)
(*                                                                         *)
(* Scores, confidences and thresholds are in tenths (6 stands for 0.6).    *)
(***************************************************************************)
EXTENDS Integers, Sequences, FiniteSets, TLC

\* ------------------------------------------------------------ bounds
NumWorkers == 2
MaxQueries == 2
MaxResults == 2
MaxElapsed == 2

\* ------------------------------------------------- program constants
DefaultThreshold == 6
CaptureAllThreshold == 0
ClassifierThreshold == 5

Workers == 1..NumWorkers

\* confidence_threshold is read from the configuration (default 0.6) and is
\* overwritten with 0.0 by model_comparison_tester.py before routing.
Thresholds == {CaptureAllThreshold, DefaultThreshold}

Scores == {3, 6, 9}
Sources == {"healthcare_claims_index", "healthcare_providers_index"}
ClassifierConfidences == {3, 5, 8}

NoValue == "none"
NoClassification == [classified |-> FALSE]
NoResult == [routing_status |-> "none"]

VARIABLES
  confidence_threshold,  \* HealthcareQueryProcessor.confidence_threshold
  classifier,            \* [present, available]: self.classifier and its is_available()
  counters,              \* the analytics fields of the processor
  pc,                    \* each worker's position in route_healthcare_query
  calls,                 \* invocations each worker has begun
  tmp,                   \* the value a worker loaded for a pending `+=`
  classification_result, \* local of route_healthcare_query
  search_results,        \* local of _perform_similarity_search
  search_event,          \* what search_consolidated_index did in this invocation
  error_message,         \* str(e) of the exception being handled
  result,                \* the response being built / about to be returned
  expected,              \* counters as the returned results account for them
  is_enabled,            \* DSLQueryGenerator.is_enabled
  llm_provider,          \* DSLQueryGenerator.llm_provider ("none" for None)
  gen,                   \* the generate_dsl_query call in progress
  svc,                   \* the search_healthcare_data request in progress
  fb,                    \* the _generate_fallback_query calls made so far
  analysis,              \* the get_query_recommendations call in progress
  kw,                    \* the KeywordClassifier and its classify call
  ens                    \* the EnsembleClassifier and its classify call

routerVars == <<confidence_threshold, classifier, counters, pc, calls, tmp,
                classification_result, search_results, search_event,
                error_message, result, expected>>

dslVars == <<is_enabled, llm_provider, gen, svc, fb>>

analyzerVars == <<analysis>>

classifierVars == <<kw, ens>>

vars == <<routerVars, dslVars, analyzerVars, classifierVars>>

ZeroCounters ==
  [query_count |-> 0, classification_count |-> 0, rejection_count |-> 0,
   error_count |-> 0, total_processing_time |-> 0]

\* ---------------------------------------------------------- classifier

ClassificationResults ==
  [is_healthcare : BOOLEAN, confidence : ClassifierConfidences]

\* BaseHealthcareClassifier.should_route_to_healthcare
should_route_ignoring_confidence(r) == r.is_healthcare

should_route_any_confidence(r) == r.is_healthcare /\ r.confidence >= 0

should_route_to_healthcare(r) ==
  r.is_healthcare /\ r.confidence >= ClassifierThreshold

ClassifierPresent == classifier.present

\* if self.classifier and self.classifier.is_available()
ClassifierLive == classifier.present /\ classifier.available

\* ------------------------------------------------------ similarity search

SearchHit == [similarity_score : Scores, source_index : Sources]

\* index.search returns the hits best first (IndexFlatIP, inner product).
IsBestFirst(s) ==
  \A i \in 1..(Len(s) - 1) : s[i].similarity_score >= s[i + 1].similarity_score

HitLists ==
  UNION {{s \in [1..k -> SearchHit] : IsBestFirst(s)} : k \in 0..MaxResults}

\* EmbeddingGenerator.search_consolidated_index: every failure inside it
\* (index missing and not creatable, empty query embedding, any exception)
\* is turned into an empty list.
SearchEvents == {"ok", "index_unavailable", "embedding_failed", "exception"}

search_consolidated_index(event, hits) ==
  IF event = "ok" THEN hits ELSE <<>>

RECURSIVE MaxScore(_)
MaxScore(s) ==
  IF Len(s) = 1 THEN s[1].similarity_score
  ELSE LET m == MaxScore(Tail(s))
       IN IF s[1].similarity_score >= m THEN s[1].similarity_score ELSE m

\* HealthcareQueryProcessor._calculate_confidence_score
calculate_confidence_score(s) ==
  IF s = <<>> THEN 0 ELSE MaxScore(s)

\* ------------------------------------------------------------ responses

create_high_confidence_routing_response(conf, s) ==
  [routing_status |-> "HIGH_CONFIDENCE", confidence_score |-> conf,
   primary_data_source |-> s[1].source_index, has_routing_analysis |-> TRUE,
   classification_info |-> NoClassification, error_message |-> NoValue,
   processing_time_ms |-> 0]

create_clarification_request_response(conf) ==
  [routing_status |-> "REQUIRES_CLARIFICATION", confidence_score |-> conf,
   primary_data_source |-> NoValue, has_routing_analysis |-> TRUE,
   classification_info |-> NoClassification, error_message |-> NoValue,
   processing_time_ms |-> 0]

create_enhanced_rejection_response(c, elapsed) ==
  [routing_status |-> "REJECTED_NON_HEALTHCARE", confidence_score |-> c.confidence,
   primary_data_source |-> "N/A", has_routing_analysis |-> FALSE,
   classification_info |-> c, error_message |-> NoValue,
   processing_time_ms |-> elapsed]

create_enhanced_error_response(msg, elapsed) ==
  [routing_status |-> "ERROR", confidence_score |-> 0,
   primary_data_source |-> "N/A", has_routing_analysis |-> FALSE,
   classification_info |-> NoClassification, error_message |-> msg,
   processing_time_ms |-> elapsed]

\* ------------------------------------------------------------- actions

RouterInit ==
  /\ confidence_threshold \in Thresholds
  /\ classifier \in {[present |-> FALSE, available |-> FALSE],
                     [present |-> TRUE, available |-> FALSE],
                     [present |-> TRUE, available |-> TRUE]}
  /\ counters = ZeroCounters
  /\ pc = [w \in Workers |-> "idle"]
  /\ calls = [w \in Workers |-> 0]
  /\ tmp = [w \in Workers |-> 0]
  /\ classification_result = [w \in Workers |-> NoClassification]
  /\ search_results = [w \in Workers |-> <<>>]
  /\ search_event = [w \in Workers |-> NoValue]
  /\ error_message = [w \in Workers |-> NoValue]
  /\ result = [w \in Workers |-> NoResult]
  /\ expected = ZeroCounters


AllIdle == \A w \in Workers : pc[w] = "idle"

\* The field a load/store position works on.
FieldAt(p) ==
  CASE p \in {"query_load", "query_store"} -> "query_count"
    [] p \in {"class_load", "class_store"} -> "classification_count"
    [] p \in {"reject_load", "reject_store"} -> "rejection_count"
    [] p \in {"error_load", "error_store"} -> "error_count"
    [] p \in {"time_load", "time_store"} -> "total_processing_time"

StoreOf(p) ==
  CASE p = "query_load" -> "query_store"
    [] p = "class_load" -> "class_store"
    [] p = "reject_load" -> "reject_store"
    [] p = "error_load" -> "error_store"

\* Where route_healthcare_query goes after a counter has been stored.
AfterStore(p) ==
  CASE p = "query_store" -> "gate"
    [] p = "class_store" -> "route_check"
    [] p = "reject_store" -> "time_load"
    [] p = "error_store" -> "time_load"

\* route_healthcare_query is entered: start_time is taken.
BeginCall(w) ==
  /\ pc[w] = "idle"
  /\ calls[w] < MaxQueries
  /\ calls' = [calls EXCEPT ![w] = @ + 1]
  /\ pc' = [pc EXCEPT ![w] = "query_load"]
  /\ UNCHANGED <<confidence_threshold, classifier, counters, tmp,
                 classification_result, search_results, search_event,
                 error_message, result, expected>>

RECURSIVE SumCalls(_)
SumCalls(S) ==
  IF S = {} THEN 0
  ELSE LET w == CHOOSE x \in S : TRUE IN calls[w] + SumCalls(S \ {w})

\* One invocation at a time: a sequence of at most MaxQueries calls.
Begin(w) == AllIdle /\ SumCalls(Workers) < MaxQueries /\ BeginCall(w)

\* self.<counter> += 1, first half: the attribute is read.
LoadCounter(w) ==
  /\ pc[w] \in {"query_load", "class_load", "reject_load", "error_load"}
  /\ tmp' = [tmp EXCEPT ![w] = counters[FieldAt(pc[w])]]
  /\ pc' = [pc EXCEPT ![w] = StoreOf(pc[w])]
  /\ UNCHANGED <<confidence_threshold, classifier, counters, calls,
                 classification_result, search_results, search_event,
                 error_message, result, expected>>

IncrementOf(v) == v + 1

\* self.<counter> += 1, second half: the sum is written back.
StoreCounter(w) ==
  /\ pc[w] \in {"query_store", "class_store", "reject_store", "error_store"}
  /\ counters' = [counters EXCEPT ![FieldAt(pc[w])] = IncrementOf(tmp[w])]
  /\ pc' = [pc EXCEPT ![w] = AfterStore(pc[w])]
  /\ UNCHANGED <<confidence_threshold, classifier, calls, tmp,
                 classification_result, search_results, search_event,
                 error_message, result, expected>>

\* if self.classifier and self.classifier.is_available(): classify(user_query).
\* classify is the classifier's own code: it returns a result or raises.
Classify(w) ==
  /\ pc[w] = "gate"
  /\ ClassifierLive
  /\ \/ \E c \in ClassificationResults :
          /\ classification_result' = [classification_result EXCEPT ![w] = c]
          /\ pc' = [pc EXCEPT ![w] = "class_load"]
          /\ UNCHANGED error_message
     \/ /\ error_message' = [error_message EXCEPT ![w] = "classifier failed"]
        /\ pc' = [pc EXCEPT ![w] = "error_load"]
        /\ UNCHANGED classification_result
  /\ UNCHANGED <<confidence_threshold, classifier, counters, calls, tmp,
                 search_results, search_event, result, expected>>

\* No classifier, or it is not available: the gate is skipped.
SkipGate(w) ==
  /\ pc[w] = "gate"
  /\ ~ClassifierLive
  /\ pc' = [pc EXCEPT ![w] = "search"]
  /\ UNCHANGED <<confidence_threshold, classifier, counters, calls, tmp,
                 classification_result, search_results, search_event,
                 error_message, result, expected>>

GateRejects(c) == ~should_route_to_healthcare(c)

\* if not self.classifier.should_route_to_healthcare(classification_result)
RouteCheck(w) ==
  /\ pc[w] = "route_check"
  /\ pc' = [pc EXCEPT ![w] =
              IF GateRejects(classification_result[w]) THEN "reject_load"
              ELSE "search"]
  /\ UNCHANGED <<confidence_threshold, classifier, counters, calls, tmp,
                 classification_result, search_results, search_event,
                 error_message, result, expected>>

\* _perform_similarity_search, when it returns a response.
RoutingDecision(conf, s) ==
  IF conf >= confidence_threshold
  THEN create_high_confidence_routing_response(conf, s)
  ELSE create_clarification_request_response(conf)

\* search_results[0] of an empty list raises IndexError.
SearchRaises(conf, s) == conf >= confidence_threshold /\ s = <<>>

PerformSimilaritySearch(w) ==
  /\ pc[w] = "search"
  /\ \E event \in SearchEvents, hits \in HitLists :
       LET s == search_consolidated_index(event, hits)
           conf == calculate_confidence_score(s)
       IN /\ event = "ok" \/ hits = <<>>
          /\ search_event' = [search_event EXCEPT ![w] = event]
          /\ search_results' = [search_results EXCEPT ![w] = s]
          /\ IF SearchRaises(conf, s)
             THEN /\ error_message' =
                       [error_message EXCEPT ![w] = "list index out of range"]
                  /\ pc' = [pc EXCEPT ![w] = "error_load"]
                  /\ UNCHANGED result
             ELSE /\ result' = [result EXCEPT ![w] = RoutingDecision(conf, s)]
                  /\ pc' = [pc EXCEPT ![w] = "time_load"]
                  /\ UNCHANGED error_message
  /\ UNCHANGED <<confidence_threshold, classifier, counters, calls, tmp,
                 classification_result, expected>>

\* processing_time = (time.time() - start_time) * 1000, and the read of
\* self.total_processing_time for the `+=` that follows.
LoadTime(w) ==
  /\ pc[w] = "time_load"
  /\ \E elapsed \in 1..MaxElapsed :
       /\ tmp' = [tmp EXCEPT ![w] = counters.total_processing_time]
       /\ result' = [result EXCEPT ![w] =
            IF error_message[w] # NoValue
            THEN create_enhanced_error_response(error_message[w], elapsed)
            ELSE IF result[w] = NoResult
            THEN create_enhanced_rejection_response(classification_result[w], elapsed)
            ELSE [result[w] EXCEPT !.processing_time_ms = elapsed]]
  /\ pc' = [pc EXCEPT ![w] = "time_store"]
  /\ UNCHANGED <<confidence_threshold, classifier, counters, calls,
                 classification_result, search_results, search_event,
                 error_message, expected>>

AddTimeTwice(total, elapsed) == total + elapsed + elapsed

AddTime(total, elapsed) == total + elapsed

\* self.total_processing_time += processing_time, the store.
StoreTime(w) ==
  /\ pc[w] = "time_store"
  /\ counters' = [counters EXCEPT !.total_processing_time =
                    AddTime(tmp[w], result[w].processing_time_ms)]
  /\ pc' = [pc EXCEPT ![w] = "return"]
  /\ UNCHANGED <<confidence_threshold, classifier, calls, tmp,
                 classification_result, search_results, search_event,
                 error_message, result, expected>>

\* What one returned result accounts for in the analytics.
Accounted(e, r, c) ==
  [query_count |-> e.query_count + 1,
   classification_count |-> e.classification_count + (IF c # NoClassification THEN 1 ELSE 0),
   rejection_count |-> e.rejection_count +
      (IF r.routing_status = "REJECTED_NON_HEALTHCARE" THEN 1 ELSE 0),
   error_count |-> e.error_count + (IF r.routing_status = "ERROR" THEN 1 ELSE 0),
   total_processing_time |-> e.total_processing_time + r.processing_time_ms]

\* The response is handed to the caller; the locals die.
Return(w) ==
  /\ pc[w] = "return"
  /\ expected' = Accounted(expected, result[w], classification_result[w])
  /\ pc' = [pc EXCEPT ![w] = "idle"]
  /\ tmp' = [tmp EXCEPT ![w] = 0]
  /\ classification_result' = [classification_result EXCEPT ![w] = NoClassification]
  /\ search_results' = [search_results EXCEPT ![w] = <<>>]
  /\ search_event' = [search_event EXCEPT ![w] = NoValue]
  /\ error_message' = [error_message EXCEPT ![w] = NoValue]
  /\ result' = [result EXCEPT ![w] = NoResult]
  /\ UNCHANGED <<confidence_threshold, classifier, counters, calls>>

\* HealthcareQueryProcessor.reset_analytics, called between invocations.
ResetAnalytics ==
  /\ AllIdle
  /\ counters # ZeroCounters
  /\ counters' = ZeroCounters
  /\ expected' = ZeroCounters
  /\ UNCHANGED <<confidence_threshold, classifier, pc, calls, tmp,
                 classification_result, search_results, search_event,
                 error_message, result>>

Step(w) ==
  \/ LoadCounter(w)
  \/ StoreCounter(w)
  \/ Classify(w)
  \/ SkipGate(w)
  \/ RouteCheck(w)
  \/ PerformSimilaritySearch(w)
  \/ LoadTime(w)
  \/ StoreTime(w)
  \/ Return(w)

RouterNext ==
  \/ \E w \in Workers : Begin(w)
  \/ \E w \in Workers : Step(w)
  \/ ResetAnalytics

\* The same processor with one invocation per worker, all running concurrently.
RouterConcNext ==
  \/ \E w \in Workers : calls[w] = 0 /\ BeginCall(w)
  \/ \E w \in Workers : Step(w)

\* ================================================================ Part 2
\* DSLQueryGenerator (dsl_query_generator.py), GeminiProvider
\* (llm_providers/gemini_provider.py) and SearchService.search_healthcare_data
\* (core/api_handlers.py).

MaxRetries == 3
FallbackSize == 100

\* A query is the set of fallback cues its lower-cased text contains.
Queries ==
  {{}, {"denied", "claims"}, {"approved", "recent", "provider"},
   {"denied", "approved", "claims", "provider"}}

\* ------------------------------------------------- structured LLM output
\* A JSON value as _validate_structured_data sees it.
DslShapes == {"absent", "not_a_map", "map_without_query", "map_with_query",
              "map_with_query_size_sort"}

JsonValue(obj, idx, qt, dsl) ==
  [is_object |-> obj, index_name |-> idx, query_type |-> qt, opensearch_dsl |-> dsl]

NoData == JsonValue(FALSE, FALSE, FALSE, "absent")

validate_without_query_check(data) ==
  /\ data.is_object
  /\ data.index_name
  /\ data.query_type
  /\ data.opensearch_dsl \notin {"absent", "not_a_map"}

\* GeminiProvider._validate_structured_data
validate_structured_data(data) ==
  /\ data.is_object
  /\ data.index_name
  /\ data.query_type
  /\ data.opensearch_dsl # "absent"
  /\ data.opensearch_dsl \in {"map_with_query", "map_with_query_size_sort"}

\* What one extraction strategy makes of a response text: nothing (""),
\* text json.loads rejects, or text json.loads parses to a value.
Empty == [kind |-> "empty", data |-> NoData]
NotJson == [kind |-> "not_json", data |-> NoData]
Json(v) == [kind |-> "json", data |-> v]

StrategyOrder == <<"direct", "cleaning", "regex", "boundaries">>

ReplyText(d, c, r, b) ==
  [direct |-> d, cleaning |-> c, regex |-> r, boundaries |-> b]

Same(o) == ReplyText(o, o, o, o)

\* The response texts considered, each by what the four strategies make of it.
Replies ==
  {Same(Json(JsonValue(TRUE, TRUE, TRUE, "map_with_query_size_sort"))),
   Same(Json(JsonValue(TRUE, TRUE, TRUE, "map_with_query"))),
   ReplyText(NotJson, Json(JsonValue(TRUE, TRUE, TRUE, "map_with_query")),
             Json(JsonValue(TRUE, TRUE, TRUE, "map_with_query")),
             Json(JsonValue(TRUE, TRUE, TRUE, "map_with_query"))),
   Same(Json(JsonValue(TRUE, TRUE, TRUE, "map_without_query"))),
   Same(Json(JsonValue(TRUE, TRUE, TRUE, "not_a_map"))),
   Same(Json(JsonValue(TRUE, FALSE, TRUE, "map_with_query"))),
   Same(Json(JsonValue(TRUE, TRUE, FALSE, "absent"))),
   ReplyText(Json(NoData), Json(JsonValue(TRUE, TRUE, TRUE, "map_with_query")),
             Json(JsonValue(TRUE, TRUE, TRUE, "map_with_query")),
             Json(JsonValue(TRUE, TRUE, TRUE, "map_with_query"))),
   ReplyText(Json(NoData), Json(NoData), Empty, Empty),
   ReplyText(NotJson, NotJson, Empty, Empty),
   Same(Empty)}

NotParsed == [ok |-> FALSE, data |-> NoData]

TryDirectOnly(text, i) ==
  IF text.direct.kind = "json" /\ validate_structured_data(text.direct.data)
  THEN [ok |-> TRUE, data |-> text.direct.data]
  ELSE NotParsed

\* The loop over extraction_strategies, from the i-th strategy on.
RECURSIVE TryStrategies(_, _)
TryStrategies(text, i) ==
  IF i > Len(StrategyOrder) THEN [ok |-> FALSE, data |-> NoData]
  ELSE LET out == text[StrategyOrder[i]]
       IN IF out.kind = "json" /\ validate_structured_data(out.data)
          THEN [ok |-> TRUE, data |-> out.data]
          ELSE TryStrategies(text, i + 1)

\* GeminiProvider._parse_structured_response; ok = FALSE is its ValueError.
parse_structured_response(text) == TryStrategies(text, 1)

\* --------------------------------------------------- generation results
NoGeneration == [provider |-> "none"]
EmptyDocument == [kind |-> "empty_string"]

\* The argument generate_dsl_query receives as routing_result: a router
\* response (a mapping), or a bare index name, as search_healthcare_data and
\* health_check pass it.
RouterResponses ==
  {create_high_confidence_routing_response(h.similarity_score, <<h>>) : h \in SearchHit}
  \cup {create_clarification_request_response(c) : c \in {0, 3}}
  \cup {create_enhanced_rejection_response(c, 1) :
          c \in {x \in ClassificationResults : ~should_route_to_healthcare(x)}}
  \cup {create_enhanced_error_response("classifier failed", 1)}

MappingArg(r) == [kind |-> "dict", response |-> r, index_name |-> NoValue]
StringArg(name) ==
  [kind |-> "str", response |-> NoResult, index_name |-> name]

\* routing_result.get('routing_analysis', {}).get('primary_data_source', 'unknown')
primary_data_source_of(arg) ==
  IF arg.response.has_routing_analysis /\ arg.response.primary_data_source # NoValue
  THEN arg.response.primary_data_source
  ELSE "unknown"

\* The base_dsl literal of _generate_fallback_query.
EmptyBaseDsl ==
  [kind |-> "fallback_dsl", must |-> <<>>, filter |-> <<>>,
   size |-> FallbackSize, sort |-> "date desc"]

shared_base_dsl(previous) == previous

\* base_dsl = {...}: each call builds its own document; `previous` is the
\* document the call before it built.
new_base_dsl(previous) == EmptyBaseDsl

\* The appends of _generate_fallback_query to base_dsl.
fill_base_dsl(base_dsl, q, index_name) ==
  LET status == IF "denied" \in q \/ "rejected" \in q THEN <<"status=denied">>
                ELSE IF "approved" \in q \/ "paid" \in q THEN <<"status=approved">>
                ELSE <<>>
      range == IF "last month" \in q \/ "recent" \in q THEN <<"date>=now-1M">>
               ELSE <<>>
      must == IF "claims" \in q THEN <<"claim_type=healthcare">>
              ELSE IF "provider" \in q THEN <<"provider_type=healthcare">>
              ELSE <<>>
  IN [index_name |-> index_name, query_type |-> "search",
      opensearch_dsl |-> [base_dsl EXCEPT !.must = @ \o must,
                                          !.filter = @ \o status \o range]]

NoDocument == [query_type |-> "none"]

\* DSLQueryGenerator._generate_fallback_query
generate_fallback_query(q, index_name) ==
  fill_base_dsl(new_base_dsl(EmptyBaseDsl), q, index_name)

\* DSLQueryGenerator._create_fallback_response
create_fallback_response(q, arg) ==
  LET data == generate_fallback_query(q, primary_data_source_of(arg))
  IN [provider |-> "fallback", success |-> TRUE, is_safe |-> TRUE,
      dsl_query |-> data.opensearch_dsl, index_name |-> data.index_name,
      safety_issues |-> NoValue, error |-> NoValue,
      structured_response |-> NoData]

\* DSLQueryGenerator._create_error_response
create_error_response(msg) ==
  [provider |-> "error", success |-> FALSE, is_safe |-> FALSE,
   dsl_query |-> EmptyDocument, index_name |-> NoValue,
   safety_issues |-> msg, error |-> msg, structured_response |-> NoData]

\* The success return of DSLQueryGenerator.generate_dsl_query.
create_llm_response(data, arg, safe, issues) ==
  [provider |-> "GeminiProvider", success |-> TRUE, is_safe |-> safe,
   dsl_query |-> [kind |-> "opensearch_dsl", shape |-> data.opensearch_dsl],
   index_name |-> IF data.index_name THEN "from_llm" ELSE primary_data_source_of(arg),
   safety_issues |-> IF safe THEN NoValue ELSE issues, error |-> NoValue,
   structured_response |-> data]

\* ------------------------------------------------------------ generator
IdleGen ==
  [pc |-> "idle", caller |-> NoValue, user_query |-> {},
   routing_result |-> StringArg(NoValue), attempt |-> 0, corrections |-> 0,
   invalid_replies |-> 0, reply |-> Same(Empty), parsed |-> NotParsed,
   safety_reply |-> [kind |-> "none", is_safe |-> "absent", issues |-> "absent"],
   provider_calls |-> 0, result |-> NoGeneration]

IdleSvc ==
  [pc |-> "idle", query |-> {}, index_name |-> NoValue, routed |-> NoValue,
   dsl_query |-> NoGeneration, executed |-> NoGeneration, success |-> FALSE]

FallbackIndexNames == {"healthcare_claims_index", "unknown"}

FallbackInputs == Queries \X FallbackIndexNames

\* No _generate_fallback_query call made yet; `first` keeps the document
\* each input got the first time.
IdleFallback ==
  [pc |-> "idle", input |-> <<{}, "unknown">>, base_dsl |-> EmptyBaseDsl,
   document |-> NoDocument, first |-> [i \in FallbackInputs |-> NoDocument]]

\* DSLQueryGenerator.__init__ and _initialize_llm_provider: enable_llm from
\* the configuration, then the API key, the factory and is_available().
ConstructionOutcomes ==
  {"llm_disabled", "no_api_key", "factory_raised", "provider_unavailable", "ready"}

EnabledAfter(outcome) == outcome = "ready"

ProviderAfter(outcome) ==
  IF outcome \in {"provider_unavailable", "ready"} THEN "gemini" ELSE "none"

GeneratorInit(outcome) ==
  /\ is_enabled = EnabledAfter(outcome)
  /\ llm_provider = ProviderAfter(outcome)
  /\ gen = IdleGen
  /\ svc = IdleSvc
  /\ fb = IdleFallback

UsesLLM == is_enabled /\ llm_provider # "none"

EnterGenerate(caller, q, arg) ==
  [IdleGen EXCEPT !.pc = "entered", !.caller = caller, !.user_query = q,
                  !.routing_result = arg]

\* A caller other than the search service calls generate_dsl_query.
GenerateDirect ==
  /\ gen.pc = "idle"
  /\ svc.pc = "idle"
  /\ \E q \in Queries,
        arg \in {MappingArg(r) : r \in RouterResponses} \cup {StringArg("test_index")} :
       gen' = EnterGenerate("direct", q, arg)
  /\ UNCHANGED <<is_enabled, llm_provider, svc, fb>>

\* if not self.is_enabled or not self.llm_provider: the fallback response.
\* routing_result.get on a str raises AttributeError, outside any try.
GenerateFallback ==
  /\ gen.pc = "entered"
  /\ ~UsesLLM
  /\ gen' = IF gen.routing_result.kind = "str"
            THEN [gen EXCEPT !.pc = "raised"]
            ELSE [gen EXCEPT !.pc = "returned",
                             !.result = create_fallback_response(gen.user_query,
                                                                 gen.routing_result)]
  /\ UNCHANGED <<is_enabled, llm_provider, svc, fb>>

\* The try block up to the provider call; the same AttributeError is caught
\* by `except Exception` and becomes the error response.
GenerateExtract ==
  /\ gen.pc = "entered"
  /\ UsesLLM
  /\ gen' = IF gen.routing_result.kind = "str"
            THEN [gen EXCEPT !.pc = "returned",
                             !.result = create_error_response("DSL generation error")]
            ELSE [gen EXCEPT !.pc = "generating"]
  /\ UNCHANGED <<is_enabled, llm_provider, svc, fb>>

\* What DSLQueryGenerator does with an unsuccessful LLMResponse.
AfterLLMFailure(g) ==
  [g EXCEPT !.pc = "returned",
            !.result = create_error_response("LLM generation failed")]

retry_once_more(attempt) == attempt < MaxRetries

\* if attempt < max_retries - 1: another pass of the retry loop.
should_retry(attempt) == attempt < MaxRetries - 1

\* One pass of the retry loop of GeminiProvider.generate_dsl_query:
\* generate_content raises, or its text is parsed and validated.
ProviderAttempt ==
  /\ gen.pc = "generating"
  /\ \/ gen' = AfterLLMFailure([gen EXCEPT !.provider_calls = @ + 1,
                                           !.attempt = @ + 1])
     \/ \E text \in Replies :
          LET parsed == parse_structured_response(text)
              g == [gen EXCEPT !.provider_calls = @ + 1, !.attempt = @ + 1,
                               !.reply = text, !.parsed = parsed]
          IN gen' = IF parsed.ok
                    THEN [g EXCEPT !.pc = "safety",
                                   !.result = create_llm_response(parsed.data,
                                                g.routing_result, FALSE, NoValue)]
                    ELSE IF should_retry(gen.attempt)
                    THEN [g EXCEPT !.corrections = @ + 1,
                                   !.invalid_replies = @ + 1]
                    ELSE AfterLLMFailure([g EXCEPT !.invalid_replies = @ + 1])
  /\ UNCHANGED <<is_enabled, llm_provider, svc, fb>>

\* What generate_content returns to validate_query_safety: the call raises,
\* the text is not JSON, it is JSON but no object, or it is an object whose
\* is_safe is true, false, missing or the non-empty string "false".
SafetyReply(kind, safe, issues) ==
  [kind |-> kind, is_safe |-> safe, issues |-> issues]

SafetyReplies ==
  {SafetyReply("api_error", "absent", "absent"),
   SafetyReply("not_json", "absent", "absent"),
   SafetyReply("json_non_object", "absent", "absent")}
  \cup {SafetyReply("object", v, i) :
          v \in {"true", "false", "absent", "string_false"},
          i \in {"absent", "list_of_strings", "list_of_objects"}}

NoSafetyReply == SafetyReply("none", "absent", "absent")

\* Python truth of safety_data.get("is_safe", False).
Truthy(v) == v \in {"true", "string_false"}

\* GeminiProvider.validate_query_safety, as the LLMResponse it returns.
validate_query_safety(reply) ==
  IF reply.kind = "api_error" \/ reply.kind = "json_non_object"
  THEN [success |-> FALSE, error_message |-> "Gemini safety validation error"]
  ELSE IF reply.kind = "not_json"
  THEN [success |-> FALSE,
        error_message |-> "Could not parse safety validation response"]
  ELSE IF Truthy(reply.is_safe)
  THEN [success |-> TRUE, error_message |-> NoValue]
  ELSE IF reply.issues = "list_of_objects"
  THEN [success |-> FALSE, error_message |-> "Gemini safety validation error"]
  ELSE IF reply.issues = "list_of_strings"
  THEN [success |-> FALSE, error_message |-> "Query safety issues: reported issues"]
  ELSE [success |-> FALSE, error_message |-> "Query safety issues: "]

\* validate_query_safety and _generate_explanation, then the success return.
SafetyCheck ==
  /\ gen.pc = "safety"
  /\ \E reply \in SafetyReplies :
       LET safety_response == validate_query_safety(reply)
       IN gen' = [gen EXCEPT !.pc = "returned",
                             !.provider_calls = @ + 2,
                             !.safety_reply = reply,
                             !.result = create_llm_response(
                                 gen.result.structured_response, gen.routing_result,
                                 safety_response.success,
                                 safety_response.error_message)]
  /\ UNCHANGED <<is_enabled, llm_provider, svc, fb>>

\* The direct caller has its result (or its exception).
GenerateDone ==
  /\ gen.pc \in {"returned", "raised"}
  /\ gen.caller = "direct"
  /\ gen' = IdleGen
  /\ UNCHANGED <<is_enabled, llm_provider, svc, fb>>

\* ------------------------------------------------- search_healthcare_data
DefaultIndex == "healthcare_claims_index"

\* Lines 104-112: the index name taken from the routing result.
resolve_index_name(r) ==
  IF r.primary_data_source \in {NoValue, "N/A"} THEN DefaultIndex
  ELSE r.primary_data_source

\* A request arrives, with or without an index name from the caller.
SearchBegin ==
  /\ svc.pc = "idle"
  /\ gen.pc = "idle"
  /\ \E q \in Queries, given \in {NoValue, "healthcare_providers_index"} :
       svc' = [IdleSvc EXCEPT !.pc = IF given = NoValue THEN "route" ELSE "generate",
                              !.query = q, !.index_name = given]
  /\ UNCHANGED <<is_enabled, llm_provider, gen, fb>>

\* Step 1: route_healthcare_query (seen here by the response it returns).
SearchRoute ==
  /\ svc.pc = "route"
  /\ \E r \in RouterResponses :
       svc' = [svc EXCEPT !.pc = "generate", !.routed = r.routing_status,
                          !.index_name = resolve_index_name(r)]
  /\ UNCHANGED <<is_enabled, llm_provider, gen, fb>>

\* Step 2: components.dsl_generator.generate_dsl_query(query, index_name).
SearchGenerate ==
  /\ svc.pc = "generate"
  /\ gen.pc = "idle"
  /\ gen' = EnterGenerate("service", svc.query, StringArg(svc.index_name))
  /\ svc' = [svc EXCEPT !.pc = "awaiting"]
  /\ UNCHANGED <<is_enabled, llm_provider, fb>>

\* `if components.query_executor_factory and dsl_query`: dsl_query is the
\* whole generation result, a non-empty dict.
ShouldExecute(generated) == generated # NoGeneration

\* Step 3 and 4: the generation result goes to executor.execute_query, or the
\* exception of generate_dsl_query becomes a failed SearchResponse.
SearchExecute ==
  /\ svc.pc = "awaiting"
  /\ gen.pc \in {"returned", "raised"}
  /\ gen.caller = "service"
  /\ svc' = IF gen.pc = "raised"
            THEN [svc EXCEPT !.pc = "responded", !.success = FALSE]
            ELSE [svc EXCEPT !.pc = "responded", !.success = TRUE,
                             !.dsl_query = gen.result,
                             !.executed = IF ShouldExecute(gen.result)
                                          THEN gen.result ELSE NoGeneration]
  /\ gen' = IdleGen
  /\ UNCHANGED <<is_enabled, llm_provider, fb>>

SearchRespond ==
  /\ svc.pc = "responded"
  /\ svc' = IdleSvc
  /\ UNCHANGED <<is_enabled, llm_provider, gen, fb>>

\* One _generate_fallback_query call.
FallbackGenerate ==
  /\ fb.pc = "idle"
  /\ \E i \in FallbackInputs :
       LET document == fill_base_dsl(new_base_dsl(fb.base_dsl), i[1], i[2])
       IN fb' = [fb EXCEPT !.pc = "returned", !.input = i,
                           !.base_dsl = document.opensearch_dsl,
                           !.document = document]
  /\ UNCHANGED <<is_enabled, llm_provider, gen, svc>>

\* The caller has the document.
FallbackDone ==
  /\ fb.pc = "returned"
  /\ fb' = [fb EXCEPT !.pc = "idle",
                      !.first[fb.input] = IF @ = NoDocument THEN fb.document ELSE @]
  /\ UNCHANGED <<is_enabled, llm_provider, gen, svc>>

FallbackNext ==
  \/ FallbackGenerate
  \/ FallbackDone

DslNext ==
  \/ GenerateDirect
  \/ GenerateFallback
  \/ GenerateExtract
  \/ ProviderAttempt
  \/ SafetyCheck
  \/ GenerateDone
  \/ SearchBegin
  \/ SearchRoute
  \/ SearchGenerate
  \/ SearchExecute
  \/ SearchRespond

\* ================================================================ Part 3
\* HealthcareQueryAnalyzer (healthcare_query_processor.py).

MaxWords == 2
MaxRecommendations == 1

\* A query is the sequence of words user_query.split() yields.
Vocabulary == {"Fraud", "detection", "monthly", "report", "weather"}

FraudDetection == <<"fraud", "detection">>

SampleQuery ==
  <<"show", "me", "fraud", "detection", "reports", "for", "q3", "2024">>

AnalyzerQueries ==
  UNION {[1..n -> Vocabulary] : n \in 0..MaxWords}
  \cup {FraudDetection, SampleQuery}

TimeframeCues == {"quarter", "month", "year", "2024", "2023"}
DomainCues == {"claims", "provider", "fraud", "financial"}
AnalysisCues == {"report", "analysis", "metrics", "performance"}

\* The cues that are substrings of word.lower().
CuesIn(word) ==
  CASE word \in {"Fraud", "fraud"} -> {"fraud"}
    [] word = "monthly" -> {"month"}
    [] word \in {"report", "reports"} -> {"report"}
    [] word = "2024" -> {"2024"}
    [] OTHER -> {}

\* any(cue in user_query.lower() for cue in cues)
HasCue(q, cues) == \E i \in 1..Len(q) : CuesIn(q[i]) \cap cues # {}

Bit(b) == IF b THEN 1 ELSE 0

\* HealthcareQueryAnalyzer._get_complexity_level
get_complexity_level(score) ==
  IF score >= 3 THEN "HIGH" ELSE IF score >= 2 THEN "MEDIUM" ELSE "LOW"

\* HealthcareQueryAnalyzer.analyze_query_complexity
analyze_query_complexity(q) ==
  LET word_count == Len(q)
      has_timeframe == HasCue(q, TimeframeCues)
      has_domain == HasCue(q, DomainCues)
      has_analysis_type == HasCue(q, AnalysisCues)
      complexity_score == Bit(word_count > 5) + Bit(has_timeframe)
                          + Bit(has_domain) + Bit(has_analysis_type)
  IN [word_count |-> word_count, has_timeframe |-> has_timeframe,
      has_domain_specification |-> has_domain,
      has_analysis_type |-> has_analysis_type,
      complexity_score |-> complexity_score,
      complexity_level |-> get_complexity_level(complexity_score)]

suggestions_with_word_count(status, c) ==
  IF status # "REQUIRES_CLARIFICATION" THEN <<>>
  ELSE (IF c.has_domain_specification THEN <<>> ELSE <<"specify the domain">>)
       \o (IF c.has_timeframe THEN <<>> ELSE <<"add a time period">>)
       \o (IF c.has_analysis_type THEN <<>> ELSE <<"specify the analysis type">>)
       \o (IF c.word_count > 5 THEN <<>> ELSE <<"use more words">>)

\* The improvement suggestions of get_query_recommendations.
improvement_suggestions(status, c) ==
  IF status # "REQUIRES_CLARIFICATION" THEN <<>>
  ELSE (IF c.has_domain_specification THEN <<>> ELSE <<"specify the domain">>)
       \o (IF c.has_timeframe THEN <<>> ELSE <<"add a time period">>)
       \o (IF c.has_analysis_type THEN <<>> ELSE <<"specify the analysis type">>)

IdleAnalysis ==
  [pc |-> "idle", query |-> <<>>, complexity |-> analyze_query_complexity(<<>>),
   routing_status |-> NoValue, confidence_score |-> 0,
   improvement_suggestions |-> <<>>]

\* The analyzer calls the processor from one thread.
AnalyzerWorker == 1

\* get_query_recommendations: the complexity analysis, then the call of
\* route_healthcare_query.
Recommend ==
  /\ analysis.pc = "idle"
  /\ calls[AnalyzerWorker] < MaxRecommendations
  /\ \E q \in AnalyzerQueries :
       analysis' = [IdleAnalysis EXCEPT !.pc = "routing", !.query = q,
                                        !.complexity = analyze_query_complexity(q)]
  /\ Begin(AnalyzerWorker)
  /\ UNCHANGED <<dslVars, classifierVars>>

\* route_healthcare_query runs for the analyzer.
RecommendRoute ==
  /\ analysis.pc = "routing"
  /\ pc[AnalyzerWorker] # "return"
  /\ Step(AnalyzerWorker)
  /\ UNCHANGED <<dslVars, analyzerVars, classifierVars>>

\* routing_result["routing_analysis"]["routing_status"] and what follows;
\* a response without routing_analysis raises KeyError.
RecommendReturn ==
  /\ analysis.pc = "routing"
  /\ Return(AnalyzerWorker)
  /\ LET r == result[AnalyzerWorker]
     IN analysis' =
          IF r.has_routing_analysis
          THEN [analysis EXCEPT
                  !.pc = "returned",
                  !.routing_status = r.routing_status,
                  !.confidence_score = r.confidence_score,
                  !.improvement_suggestions =
                     improvement_suggestions(r.routing_status, analysis.complexity)]
          ELSE [analysis EXCEPT !.pc = "raised", !.routing_status = r.routing_status]
  /\ UNCHANGED <<dslVars, classifierVars>>

\* The caller has the recommendations (or the KeyError).
RecommendDone ==
  /\ analysis.pc \in {"returned", "raised"}
  /\ analysis' = IdleAnalysis
  /\ UNCHANGED <<routerVars, dslVars, classifierVars>>

\* analyze_query_complexity called on its own: it reads the query only.
Analyze ==
  /\ analysis.pc = "idle"
  /\ \E q \in AnalyzerQueries :
       analysis' = [IdleAnalysis EXCEPT !.pc = "analyzed", !.query = q,
                                        !.complexity = analyze_query_complexity(q)]
  /\ UNCHANGED <<routerVars, dslVars, classifierVars>>

\* The caller has the complexity analysis.
AnalyzeDone ==
  /\ analysis.pc = "analyzed"
  /\ analysis' = IdleAnalysis
  /\ UNCHANGED <<routerVars, dslVars, classifierVars>>

AnalyzerNext ==
  \/ Analyze
  \/ AnalyzeDone
  \/ Recommend
  \/ RecommendRoute
  \/ RecommendReturn
  \/ RecommendDone

\* ================================================================ Part 4
\* KeywordClassifier (classifiers/keyword_classifier.py).  Ratios and
\* confidences are exact fractions [num, den].

MaxKeywordHits == 3
MaxTotalWords == 11
MinConfidenceTenths == 3
RatioThresholdTenths == 1

Frac(n, d) == [num |-> n, den |-> d]
Tenths(n) == Frac(n, 10)
Less(a, b) == a.num * b.den < b.num * a.den
Same2(a, b) == a.num * b.den = b.num * a.den
MinFrac(a, b) == IF Less(b, a) THEN b ELSE a
MaxFrac(a, b) == IF Less(a, b) THEN b ELSE a
Plus(a, b) == Frac(a.num * b.den + b.num * a.den, a.den * b.den)
Times(a, b) == Frac(a.num * b.num, a.den * b.den)
AbsDiff(a, b) ==
  LET x == a.num * b.den - b.num * a.den
  IN Frac(IF x < 0 THEN 0 - x ELSE x, a.den * b.den)

min_confidence == Tenths(MinConfidenceTenths)
ratio_threshold == Tenths(RatioThresholdTenths)

KeywordResult(h, c, method) ==
  [is_healthcare |-> h, confidence |-> c, method |-> method]

NoKeywordResult == KeywordResult(FALSE, Frac(0, 1), "none")

count_based_without_floor(healthcare_count, non_healthcare_count) ==
  IF healthcare_count > non_healthcare_count
  THEN KeywordResult(TRUE, MinFrac(Tenths(9), Tenths(healthcare_count)),
                     "count_based_classification")
  ELSE IF non_healthcare_count > healthcare_count
  THEN KeywordResult(FALSE, MinFrac(Tenths(9), Tenths(non_healthcare_count)),
                     "count_based_classification")
  ELSE KeywordResult(TRUE, min_confidence, "count_based_classification")

count_based_tie_undecided(healthcare_count, non_healthcare_count) ==
  IF healthcare_count > non_healthcare_count
  THEN KeywordResult(TRUE, MinFrac(Tenths(9), Tenths(5 + healthcare_count)),
                     "count_based_classification")
  ELSE IF non_healthcare_count > healthcare_count
  THEN KeywordResult(FALSE, MinFrac(Tenths(9), Tenths(5 + non_healthcare_count)),
                     "count_based_classification")
  ELSE KeywordResult(TRUE, Tenths(5), "count_based_classification")

\* KeywordClassifier._count_based_classification
count_based_classification(healthcare_count, non_healthcare_count) ==
  IF healthcare_count > non_healthcare_count
  THEN KeywordResult(TRUE, MinFrac(Tenths(9), Tenths(5 + healthcare_count)),
                     "count_based_classification")
  ELSE IF non_healthcare_count > healthcare_count
  THEN KeywordResult(FALSE, MinFrac(Tenths(9), Tenths(5 + non_healthcare_count)),
                     "count_based_classification")
  ELSE KeywordResult(TRUE, min_confidence, "count_based_classification")

\* KeywordClassifier._calculate_confidence
calculate_confidence(primary_ratio, secondary_ratio, ratio_difference) ==
  LET base == MinFrac(Tenths(9), Plus(Tenths(3), Times(primary_ratio, Frac(2, 1))))
      boosted == IF Less(ratio_threshold, ratio_difference)
                 THEN Plus(base, MinFrac(Tenths(2),
                                         Times(ratio_difference, Frac(2, 1))))
                 ELSE base
      penalised == IF Less(primary_ratio, Tenths(1))
                   THEN Times(boosted, Tenths(8))
                   ELSE boosted
  IN MaxFrac(min_confidence, MinFrac(Frac(95, 100), penalised))

\* KeywordClassifier._ratio_based_classification (total_words > 0)
ratio_based_classification(healthcare_count, non_healthcare_count, total_words, fallback_to_count) ==
  LET healthcare_ratio == Frac(healthcare_count, total_words)
      non_healthcare_ratio == Frac(non_healthcare_count, total_words)
      ratio_difference == AbsDiff(healthcare_ratio, non_healthcare_ratio)
      tie == Same2(healthcare_ratio, non_healthcare_ratio)
      is_healthcare == ~Less(healthcare_ratio, non_healthcare_ratio)
      confidence ==
        IF Less(non_healthcare_ratio, healthcare_ratio)
        THEN calculate_confidence(healthcare_ratio, non_healthcare_ratio,
                                  ratio_difference)
        ELSE IF Less(healthcare_ratio, non_healthcare_ratio)
        THEN calculate_confidence(non_healthcare_ratio, healthcare_ratio,
                                  ratio_difference)
        ELSE min_confidence
  IN IF fallback_to_count /\ (tie \/ Less(confidence, min_confidence))
     THEN count_based_classification(healthcare_count, non_healthcare_count)
     ELSE KeywordResult(is_healthcare, confidence, "ratio_based_classification")

\* KeywordClassifier.classify, on the counts it takes from the query.
keyword_classify(config, healthcare_count, non_healthcare_count, total_words) ==
  IF config.use_ratio_based /\ total_words > 0
  THEN ratio_based_classification(healthcare_count, non_healthcare_count,
                                  total_words, config.fallback_to_count)
  ELSE count_based_classification(healthcare_count, non_healthcare_count)

\* KeywordClassifier.__init__: use_ratio_based and fallback_to_count are
\* read from the configuration.
KeywordConfigs == [use_ratio_based : BOOLEAN, fallback_to_count : BOOLEAN]

IdleKeyword(config) ==
  [pc |-> "idle", config |-> config, healthcare_count |-> 0,
   non_healthcare_count |-> 0, total_words |-> 0, result |-> NoKeywordResult]

KeywordInit == \E config \in KeywordConfigs : kw = IdleKeyword(config)

KeywordDefault ==
  IdleKeyword([use_ratio_based |-> TRUE, fallback_to_count |-> TRUE])

\* One KeywordClassifier.classify call.
KeywordClassify ==
  /\ kw.pc = "idle"
  /\ \E h \in 0..MaxKeywordHits, n \in 0..MaxKeywordHits, t \in 0..MaxTotalWords :
       kw' = [kw EXCEPT !.pc = "classified", !.healthcare_count = h,
                        !.non_healthcare_count = n, !.total_words = t,
                        !.result = keyword_classify(kw.config, h, n, t)]

\* The caller has the ClassificationResult.
KeywordDone ==
  /\ kw.pc = "classified"
  /\ kw' = IdleKeyword(kw.config)

\* ================================================================ Part 5
\* EnsembleClassifier (classifiers/ensemble_classifier.py) and
\* BARTZeroShotClassifier (classifiers/bart_zero_shot_classifier.py).
\* Sub-classifier confidences and weights are in tenths, the ensemble's
\* confidence in hundredths.

DefaultBartWeight == 6
DefaultKeywordWeight == 4

VotingStrategies == {"majority", "weighted", "confidence", "unknown"}

\* bart_weight and keyword_weight as configured; their sum need not be 1.
BartWeights == {DefaultBartWeight, 8}
KeywordWeights == {DefaultKeywordWeight, 8}

SubResult(h, c) == [is_healthcare |-> h, confidence |-> c]

NoSubResult == [is_healthcare |-> FALSE, confidence |-> 0, absent |-> TRUE]

\* What the zero-shot pipeline does in BARTZeroShotClassifier.classify: it
\* returns the top label with its score, or raises.
BartScores == {5, 7, 10}

PipelineOutcomes ==
  {[raised |-> FALSE, label |-> l, score |-> c] :
     l \in {"Healthcare and Medical", "Non-Healthcare"}, c \in BartScores}
  \cup {[raised |-> TRUE, label |-> NoValue, score |-> 0]}

\* BARTZeroShotClassifier.classify (the model is loaded).
bart_classify(outcome) ==
  IF outcome.raised THEN SubResult(FALSE, 0)
  ELSE SubResult(outcome.label = "Healthcare and Medical", outcome.score)

\* What KeywordClassifier.classify hands to the ensemble, in tenths.
KeywordOutcomes ==
  {SubResult(r.is_healthcare, r.confidence.num) :
     r \in {count_based_classification(h, n) :
              h \in 0..MaxKeywordHits, n \in 0..MaxKeywordHits}}

EnsembleResult(h, c, method) ==
  [is_healthcare |-> h, confidence |-> c, method |-> method]

NoEnsembleResult == EnsembleResult(FALSE, 0, "none")

FailClosed == EnsembleResult(FALSE, 0, "error")

Verbatim(r) == EnsembleResult(r.is_healthcare, 10 * r.confidence, "single")

majority_needing_both(b, k) ==
  EnsembleResult(b.is_healthcare /\ k.is_healthcare,
                 (10 * b.confidence + 10 * k.confidence) \div 2,
                 "majority_voting")

\* EnsembleClassifier._majority_voting
majority_voting(b, k) ==
  LET bart_vote == IF b.is_healthcare THEN 1 ELSE 0
      keyword_vote == IF k.is_healthcare THEN 1 ELSE 0
  IN EnsembleResult(bart_vote + keyword_vote >= 1,
                    (10 * b.confidence + 10 * k.confidence) \div 2,
                    "majority_voting")

\* The score one sub-result contributes in _weighted_voting.
WeightedScore(r, weight) ==
  IF r.is_healthcare THEN r.confidence * weight ELSE (10 - r.confidence) * weight

weighted_voting_score_sum(b, k, bart_weight, keyword_weight) ==
  LET score_sum == WeightedScore(b, bart_weight) + WeightedScore(k, keyword_weight)
  IN EnsembleResult(score_sum > 50, score_sum, "weighted_voting")

\* EnsembleClassifier._weighted_voting
weighted_voting(b, k, bart_weight, keyword_weight) ==
  LET bart_score == WeightedScore(b, bart_weight)
      keyword_score == WeightedScore(k, keyword_weight)
      is_healthcare == bart_score + keyword_score > 50
  IN EnsembleResult(is_healthcare,
                    IF is_healthcare THEN bart_score + keyword_score
                    ELSE 100 - (bart_score + keyword_score),
                    "weighted_voting")

\* EnsembleClassifier._confidence_based_voting
confidence_based_voting(b, k) ==
  IF b.confidence > k.confidence
  THEN EnsembleResult(b.is_healthcare, 10 * b.confidence, "confidence_based")
  ELSE EnsembleResult(k.is_healthcare, 10 * k.confidence, "confidence_based")

combine_ignoring_absence(e, b, k) ==
  weighted_voting(b, k, e.bart_weight, e.keyword_weight)

\* EnsembleClassifier._combine_results
combine_results(e, b, k) ==
  IF b = NoSubResult /\ k = NoSubResult THEN FailClosed
  ELSE IF b = NoSubResult THEN Verbatim(k)
  ELSE IF k = NoSubResult THEN Verbatim(b)
  ELSE IF e.voting_strategy = "majority" THEN majority_voting(b, k)
  ELSE IF e.voting_strategy = "confidence" THEN confidence_based_voting(b, k)
  ELSE weighted_voting(b, k, e.bart_weight, e.keyword_weight)

\* EnsembleClassifier.__init__ and _initialize_classifiers: the strategy and
\* the weights from the configuration, the availability flags from the
\* sub-classifiers (both stay False when initialization raises).
EnsembleConfigs ==
  [voting_strategy : VotingStrategies, bart_weight : BartWeights,
   keyword_weight : KeywordWeights, bart_available : BOOLEAN,
   keyword_available : BOOLEAN]

IdleEnsemble(config) ==
  [pc |-> "idle", config |-> config, bart_raised |-> FALSE,
   bart_result |-> NoSubResult, keyword_result |-> NoSubResult,
   result |-> NoEnsembleResult]

EnsembleInit == \E config \in EnsembleConfigs : ens = IdleEnsemble(config)

EnsembleDefault ==
  IdleEnsemble([voting_strategy |-> "weighted", bart_weight |-> DefaultBartWeight,
                keyword_weight |-> DefaultKeywordWeight, bart_available |-> TRUE,
                keyword_available |-> TRUE])

\* EnsembleClassifier.is_available
ensemble_is_available(config) == config.bart_available \/ config.keyword_available

\* One EnsembleClassifier.classify call.
EnsembleClassify ==
  /\ ens.pc = "idle"
  /\ \E outcome \in PipelineOutcomes, k \in KeywordOutcomes :
       LET bart_result == IF ens.config.bart_available
                          THEN bart_classify(outcome) ELSE NoSubResult
           keyword_result == IF ens.config.keyword_available THEN k
                             ELSE NoSubResult
       IN ens' = [ens EXCEPT
                    !.pc = "classified",
                    !.bart_raised = ens.config.bart_available /\ outcome.raised,
                    !.bart_result = bart_result,
                    !.keyword_result = keyword_result,
                    !.result = IF ~ensemble_is_available(ens.config)
                               THEN FailClosed
                               ELSE combine_results(ens.config, bart_result,
                                                    keyword_result)]

\* The caller has the ClassificationResult.
EnsembleDone ==
  /\ ens.pc = "classified"
  /\ ens' = IdleEnsemble(ens.config)

\* ======================================================== specifications

\* A sequence of invocations and resets of one processor.
Init ==
  /\ RouterInit
  /\ GeneratorInit("llm_disabled")
  /\ analysis = IdleAnalysis
  /\ kw = KeywordDefault
  /\ ens = EnsembleDefault

Next == RouterNext /\ UNCHANGED <<dslVars, analyzerVars, classifierVars>>

Spec == Init /\ [][Next]_vars

\* The same processor with its invocations running concurrently.
ConcNext == RouterConcNext /\ UNCHANGED <<dslVars, analyzerVars, classifierVars>>

ConcSpec == Init /\ [][ConcNext]_vars

\* DSL generation and the search service, for every way the generator can
\* come out of its constructor.
DslInit ==
  /\ RouterInit
  /\ confidence_threshold = DefaultThreshold
  /\ ClassifierLive
  /\ \E outcome \in ConstructionOutcomes : GeneratorInit(outcome)
  /\ analysis = IdleAnalysis
  /\ kw = KeywordDefault
  /\ ens = EnsembleDefault

DslSpecNext == DslNext /\ UNCHANGED <<routerVars, analyzerVars, classifierVars>>

DslSpec == DslInit /\ [][DslSpecNext]_vars

\* The same, with the retry loop running on: a pass of the loop that can be
\* made is made (generate_content returns or raises).
DslLiveSpec ==
  DslSpec /\ WF_vars(ProviderAttempt /\ UNCHANGED <<routerVars, analyzerVars, classifierVars>>)

\* The analyzer and the processor it calls.
AnalyzerSpec == Init /\ [][AnalyzerNext]_vars

\* The keyword classifier on every count of hits and words within the bounds.
KeywordSpecInit ==
  /\ RouterInit
  /\ confidence_threshold = DefaultThreshold
  /\ ClassifierLive
  /\ GeneratorInit("llm_disabled")
  /\ analysis = IdleAnalysis
  /\ KeywordInit
  /\ ens = EnsembleDefault

KeywordNext ==
  \/ KeywordClassify /\ UNCHANGED <<routerVars, dslVars, analyzerVars, ens>>
  \/ KeywordDone /\ UNCHANGED <<routerVars, dslVars, analyzerVars, ens>>

KeywordSpec == KeywordSpecInit /\ [][KeywordNext]_vars

\* The ensemble under every configuration and every pair of sub-results.
EnsembleSpecInit ==
  /\ RouterInit
  /\ confidence_threshold = DefaultThreshold
  /\ ClassifierLive
  /\ GeneratorInit("llm_disabled")
  /\ analysis = IdleAnalysis
  /\ kw = KeywordDefault
  /\ EnsembleInit

EnsembleNext ==
  \/ EnsembleClassify /\ UNCHANGED <<routerVars, dslVars, analyzerVars, kw>>
  \/ EnsembleDone /\ UNCHANGED <<routerVars, dslVars, analyzerVars, kw>>

EnsembleSpec == EnsembleSpecInit /\ [][EnsembleNext]_vars

\* Sequences of _generate_fallback_query calls on one generator.
FallbackSpecNext ==
  FallbackNext /\ UNCHANGED <<routerVars, analyzerVars, classifierVars>>

FallbackSpec == DslInit /\ [][FallbackSpecNext]_vars

\* ======================================================== router claims

AtReturn(w) == pc[w] = "return"
Classified(w) == classification_result[w] # NoClassification
Searched(w) == search_event[w] # NoValue

\* C1: an invocation whose classification result has is_healthcare = false
\* or confidence below the classifier threshold never performs the
\* similarity search and returns REJECTED_NON_HEALTHCARE carrying that
\* classification result.
C1_GateShortCircuit ==
  \A w \in Workers :
    (Classified(w) /\ (~classification_result[w].is_healthcare
                       \/ classification_result[w].confidence < ClassifierThreshold))
    => /\ pc[w] # "search"
       /\ ~Searched(w)
       /\ AtReturn(w) =>
            /\ result[w].routing_status = "REJECTED_NON_HEALTHCARE"
            /\ result[w].classification_info = classification_result[w]

\* C1 witness: a healthcare-labelled query below the threshold is rejected.
C1_Witness ==
  \E w \in Workers :
    /\ AtReturn(w)
    /\ Classified(w)
    /\ classification_result[w].is_healthcare
    /\ classification_result[w].confidence < ClassifierThreshold
    /\ result[w].routing_status = "REJECTED_NON_HEALTHCARE"

\* C2: for an invocation that passed the gate, the confidence is the highest
\* similarity score among the returned results, and confidence >= threshold
\* yields HIGH_CONFIDENCE with the source of the top result, whose score is
\* that confidence.
C2_RouterThreshold ==
  \A w \in Workers :
    (AtReturn(w) /\ Searched(w)) =>
      LET s == search_results[w]
          conf == IF s = <<>> THEN 0 ELSE MaxScore(s)
      IN conf >= confidence_threshold =>
           /\ result[w].routing_status = "HIGH_CONFIDENCE"
           /\ result[w].confidence_score = conf
           /\ s # <<>>
           /\ result[w].primary_data_source = s[1].source_index
           /\ s[1].similarity_score = conf

\* C3: empty similarity search results yield confidence 0.0 and
\* REQUIRES_CLARIFICATION, whatever the configured threshold.
C3_EmptyResultsClarify ==
  \A w \in Workers :
    (AtReturn(w) /\ Searched(w) /\ search_results[w] = <<>>) =>
      /\ result[w].confidence_score = 0
      /\ result[w].routing_status = "REQUIRES_CLARIFICATION"

\* C4: an exception raised during classification, embedding or search ends
\* in an ERROR result with confidence 0.0 that carries the exception message.
C4_ExceptionsBecomeError ==
  \A w \in Workers :
    (AtReturn(w) /\ (error_message[w] # NoValue \/ search_event[w] = "exception")) =>
      /\ result[w].routing_status = "ERROR"
      /\ result[w].confidence_score = 0
      /\ result[w].error_message # NoValue

\* C5: once N concurrent invocations have all completed, every counter has
\* grown by exactly what the N returned results account for.
C5_NoLostUpdates ==
  (\A w \in Workers : pc[w] = "idle" /\ calls[w] = 1) => counters = expected

NonDecreasing ==
  \A f \in DOMAIN counters : counters'[f] >= counters[f]

\* C6: in a sequence of invocations the counters are, between invocations,
\* exactly what the returned results account for (query_count once per
\* invocation, the branch counter once, the processing time once), and no
\* step but reset_analytics makes a counter smaller.
C6_CounterAccounting ==
  /\ [](AllIdle => counters = expected)
  /\ [][ResetAnalytics \/ NonDecreasing]_vars

\* C6 witness: two invocations returned, one rejected and one in error.
C6_Witness ==
  /\ AllIdle
  /\ counters.query_count = 2
  /\ counters.rejection_count = 1
  /\ counters.error_count = 1
  /\ counters.total_processing_time > 2

\* ==================================================== generator claims

Returned == gen.pc = "returned"
FromLLM == gen.result.provider = "GeminiProvider"

\* The schema a structured response has to satisfy.
SchemaValid(data) ==
  /\ data.is_object
  /\ data.index_name
  /\ data.query_type
  /\ data.opensearch_dsl \in {"map_with_query", "map_with_query_size_sort"}

\* C7: a result returned from the LLM path as a success carries a structured
\* response with index_name, query_type and an opensearch_dsl map containing
\* query, and is the document of that response; after MaxRetries invalid
\* replies the caller gets no LLM-generated success.
C7_AcceptedOutputValid ==
  /\ (gen.pc \in {"safety", "returned"} /\ FromLLM) =>
       /\ gen.result.success
       /\ SchemaValid(gen.result.structured_response)
       /\ gen.result.dsl_query.shape = gen.result.structured_response.opensearch_dsl
       /\ gen.invalid_replies < MaxRetries
  /\ gen.invalid_replies = MaxRetries =>
       /\ gen.pc = "returned"
       /\ ~FromLLM
       /\ ~gen.result.success

\* C7 witness: a valid reply on the last attempt, after two invalid ones,
\* is returned as an LLM-generated success.
C7_Witness ==
  /\ Returned
  /\ FromLLM
  /\ gen.result.success
  /\ gen.invalid_replies = MaxRetries - 1
  /\ gen.attempt = MaxRetries

\* C8: with the provider enabled, a generate_dsl_query call whose LLM path
\* failed returns the rule-based fallback document, never an error result.
C8_LLMFailureFallsBack ==
  (Returned /\ UsesLLM /\ gen.attempt > 0 /\ ~FromLLM) =>
    /\ gen.result.provider = "fallback"
    /\ gen.result.success
    /\ gen.result.dsl_query # EmptyDocument

\* C9: with is_enabled false or no provider, every generate_dsl_query call
\* returns a fallback-generated result with is_safe = true and calls the
\* completion provider not once.
C9_DisabledAlwaysFallback ==
  ~UsesLLM =>
    /\ gen.pc # "raised"
    /\ gen.provider_calls = 0
    /\ Returned => /\ gen.result.provider = "fallback"
                   /\ gen.result.is_safe

\* C10: what search_healthcare_data hands to the query executor never comes
\* from a generate_dsl_query call that took the error path.
C10_ErrorResultNotExecuted ==
  svc.executed # NoGeneration =>
    /\ svc.executed.provider # "error"
    /\ svc.executed.success
    /\ svc.executed.dsl_query # EmptyDocument

\* The safety reply was a JSON object saying is_safe: true.
ReportedSafe(reply) == reply.kind = "object" /\ reply.is_safe = "true"

\* C11: an LLM-generated result is returned as a success with its generated
\* document whatever the safety check said; it has is_safe = true only when
\* the safety check reported the query safe, and otherwise is_safe = false
\* with safety_issues set.
C11_SafetySurfaced ==
  (Returned /\ FromLLM) =>
    /\ gen.result.success
    /\ gen.result.dsl_query.shape = gen.result.structured_response.opensearch_dsl
    /\ gen.result.is_safe => ReportedSafe(gen.safety_reply)
    /\ ~gen.result.is_safe => gen.result.safety_issues # NoValue

\* ================================================= search service claims

RoutedElsewhere ==
  svc.routed \in {"REJECTED_NON_HEALTHCARE", "REQUIRES_CLARIFICATION", "ERROR"}

\* C12: when the caller supplies no index, a request whose routing_status is
\* REJECTED_NON_HEALTHCARE, REQUIRES_CLARIFICATION or ERROR never reaches
\* DSL generation or query execution.
C12_OnlyHighConfidenceFlows ==
  RoutedElsewhere =>
    /\ svc.pc \notin {"generate", "awaiting"}
    /\ svc.executed = NoGeneration

\* ======================================================= analyzer claims

\* C13: every result of route_healthcare_query contains routing_analysis
\* (with routing_status and confidence_score), and get_query_recommendations
\* completes without failure for every query.
C13_RoutingAnalysisAlwaysPresent ==
  /\ \A w \in Workers : AtReturn(w) => result[w].has_routing_analysis
  /\ analysis.pc # "raised"

\* C18: for "fraud detection" the complexity score is 0 and the level LOW,
\* and when routing requests clarification there are exactly 3 improvement
\* suggestions.
C18_FraudDetectionScenario ==
  (analysis.query = FraudDetection /\ analysis.pc # "idle") =>
    /\ analysis.complexity.word_count = 2
    /\ analysis.complexity.complexity_score = 0
    /\ analysis.complexity.complexity_level = "LOW"
    /\ (analysis.pc = "returned"
        /\ analysis.routing_status = "REQUIRES_CLARIFICATION")
       => Len(analysis.improvement_suggestions) = 3

\* ============================================== keyword classifier claims

KeywordClassified == kw.pc = "classified"

C17_TieDefaultsToHealthcare ==
  (KeywordClassified /\ kw.healthcare_count = kw.non_healthcare_count) =>
    /\ kw.result.is_healthcare
    /\ kw.result.confidence.num * 10 = MinConfidenceTenths * kw.result.confidence.den

\* C17 witness: a tie of non-zero counts in a query with words, under the
\* default configuration.
C17_Witness ==
  /\ KeywordClassified
  /\ kw.config = [use_ratio_based |-> TRUE, fallback_to_count |-> TRUE]
  /\ kw.healthcare_count = kw.non_healthcare_count
  /\ kw.healthcare_count > 0
  /\ kw.total_words > 0
  /\ kw.result.is_healthcare

\* ===================================================== ensemble claims

EnsembleClassified == ens.pc = "classified"

\* C14: with exactly one sub-classifier available the ensemble returns that
\* sub-classifier's is_healthcare and confidence verbatim under every voting
\* strategy; with none available it returns is_healthcare = false and
\* confidence 0.0.
C14_EnsembleDegradation ==
  EnsembleClassified =>
    /\ (ens.config.bart_available /\ ~ens.config.keyword_available) =>
         /\ ens.result.is_healthcare = ens.bart_result.is_healthcare
         /\ ens.result.confidence = 10 * ens.bart_result.confidence
    /\ (~ens.config.bart_available /\ ens.config.keyword_available) =>
         /\ ens.result.is_healthcare = ens.keyword_result.is_healthcare
         /\ ens.result.confidence = 10 * ens.keyword_result.confidence
    /\ (~ens.config.bart_available /\ ~ens.config.keyword_available) =>
         /\ ~ens.result.is_healthcare
         /\ ens.result.confidence = 0

\* C14 witness: only the keyword classifier is available, the strategy is
\* weighted, and its non-healthcare verdict is returned as it is.
C14_Witness ==
  /\ EnsembleClassified
  /\ ~ens.config.bart_available
  /\ ens.config.keyword_available
  /\ ens.config.voting_strategy = "weighted"
  /\ ~ens.keyword_result.is_healthcare
  /\ ~ens.result.is_healthcare
  /\ ens.result.confidence = 10 * ens.keyword_result.confidence

\* C15: when the BART sub-classifier fails while classifying, the ensemble's
\* is_healthcare and confidence are those of the keyword sub-classifier
\* alone, under every voting strategy.
C15_BartFailureMeansKeywordAlone ==
  (EnsembleClassified /\ ens.bart_raised /\ ens.config.keyword_available) =>
    /\ ens.result.is_healthcare = ens.keyword_result.is_healthcare
    /\ ens.result.confidence = 10 * ens.keyword_result.confidence

\* C20: the confidence returned by weighted voting lies in [0,1], for all
\* sub-results with confidences in [0,1] and all configured weights.
C20_WeightedConfidenceInRange ==
  (EnsembleClassified /\ ens.result.method = "weighted_voting") =>
    /\ ens.result.confidence >= 0
    /\ ens.result.confidence <= 100

\* ============================================= fallback generator claims

\* C19: a _generate_fallback_query call returns the document the first call
\* with the same (query, index name) returned, whatever calls came between.
C19_FallbackDeterministic ==
  (fb.pc = "returned" /\ fb.first[fb.input] # NoDocument) =>
    fb.document = fb.first[fb.input]

\* C19 witness: a query with filters is generated a second time after a
\* call with another query that also added filters.
C19_Witness ==
  /\ fb.pc = "returned"
  /\ fb.first[fb.input] # NoDocument
  /\ fb.document.opensearch_dsl.filter # <<>>
  /\ \E i \in FallbackInputs :
       /\ i[1] # fb.input[1]
       /\ fb.first[i] # NoDocument
       /\ fb.first[i].opensearch_dsl.filter # <<>>

\* ================================================ analyzer claims, continued

\* C21: no step of analyze_query_complexity or get_query_recommendations
\* changes the analytics counters (query_count, classification_count,
\* rejection_count, error_count, total_processing_time).
C21_AnalyzerLeavesCountersAlone == [][counters' = counters]_vars

Occurrences(seq, x) == Cardinality({i \in 1..Len(seq) : seq[i] = x})

\* C26: when the routing status is REQUIRES_CLARIFICATION the recommendations
\* hold exactly one suggestion for each of the signals domain keyword,
\* timeframe token and analysis-type keyword the query lacks, and nothing
\* else (0 to 3 suggestions, none about the word count); when the status is
\* HIGH_CONFIDENCE they hold no suggestion.
C26_OneSuggestionPerMissingSignal ==
  analysis.pc = "returned" =>
    LET sug == analysis.improvement_suggestions
        q == analysis.query
        domain == Bit(~HasCue(q, DomainCues))
        timeframe == Bit(~HasCue(q, TimeframeCues))
        analysis_type == Bit(~HasCue(q, AnalysisCues))
    IN /\ analysis.routing_status = "REQUIRES_CLARIFICATION" =>
            /\ Occurrences(sug, "specify the domain") = domain
            /\ Occurrences(sug, "add a time period") = timeframe
            /\ Occurrences(sug, "specify the analysis type") = analysis_type
            /\ Len(sug) = domain + timeframe + analysis_type
       /\ analysis.routing_status = "HIGH_CONFIDENCE" => sug = <<>>

\* C26 witness: a clarification for a two-word query that names a domain
\* only, so two suggestions are emitted and none for its word count.
C26_Witness ==
  /\ analysis.pc = "returned"
  /\ analysis.routing_status = "REQUIRES_CLARIFICATION"
  /\ HasCue(analysis.query, DomainCues)
  /\ analysis.complexity.word_count <= 5
  /\ Len(analysis.improvement_suggestions) = 2

\* ================================================= router claims, continued

GateBypassed == ~classifier.present \/ ~classifier.available

\* C28: when the processor has no classifier or the classifier reports
\* is_available() = false, every invocation performs the similarity search,
\* no invocation returns REJECTED_NON_HEALTHCARE, and classification_count
\* and rejection_count keep their values.
C28_GateBypass ==
  GateBypassed =>
    /\ counters.classification_count = 0
    /\ counters.rejection_count = 0
    /\ \A w \in Workers :
         /\ ~Classified(w)
         /\ AtReturn(w) =>
              /\ Searched(w)
              /\ result[w].routing_status # "REJECTED_NON_HEALTHCARE"

\* C28 witness: a processor whose classifier exists but is unavailable has
\* answered a query from the similarity search.
C28_Witness ==
  \E w \in Workers :
    /\ classifier.present
    /\ ~classifier.available
    /\ AtReturn(w)
    /\ Searched(w)
    /\ counters.query_count > 0
    /\ result[w].routing_status \in {"HIGH_CONFIDENCE", "REQUIRES_CLARIFICATION"}

\* The ClassificationResult of the keyword classifier as the gate reads it:
\* the label, and the confidence in whole tenths (the gate compares it with
\* a threshold in tenths, for which the floor decides as the value does).
GateResult(k) ==
  [is_healthcare |-> k.is_healthcare,
   confidence |-> (10 * k.confidence.num) \div k.confidence.den]

\* C29: with the keyword classifier deciding the gate and min_confidence
\* below the classifier threshold, every query with equal healthcare and
\* non-healthcare keyword counts (zero included) is classified
\* is_healthcare = true at min_confidence, and an invocation given that
\* result returns REJECTED_NON_HEALTHCARE whose classification_info says
\* is_healthcare = true.
C29_TieIsHealthcareYetRejected ==
  MinConfidenceTenths < ClassifierThreshold =>
    \A h \in 0..MaxKeywordHits, t \in 0..MaxTotalWords :
      LET k == keyword_classify(KeywordDefault.config, h, h, t)
      IN /\ k.is_healthcare
         /\ Same2(k.confidence, min_confidence)
         /\ \A w \in Workers :
              (AtReturn(w) /\ classification_result[w] = GateResult(k)) =>
                /\ result[w].routing_status = "REJECTED_NON_HEALTHCARE"
                /\ result[w].classification_info.is_healthcare
                /\ ~Searched(w)

\* C29 witness: the result of a query without any keyword match has been
\* rejected at the gate.
C29_Witness ==
  \E w \in Workers :
    /\ AtReturn(w)
    /\ classification_result[w] =
         GateResult(keyword_classify(KeywordDefault.config, 0, 0, 0))
    /\ counters.rejection_count > 0
    /\ result[w].routing_status = "REJECTED_NON_HEALTHCARE"
    /\ result[w].classification_info.is_healthcare

\* =============================================== ensemble claims, continued

BothLive ==
  /\ EnsembleClassified
  /\ ens.bart_result # NoSubResult
  /\ ens.keyword_result # NoSubResult

\* C25: under majority voting with both sub-classifiers live, the ensemble
\* confidence is the arithmetic mean of the two sub-confidences, and the
\* ensemble says healthcare exactly when at least one sub-classifier does.
C25_MajorityVoting ==
  (BothLive /\ ens.config.voting_strategy = "majority") =>
    /\ 2 * ens.result.confidence
         = 10 * ens.bart_result.confidence + 10 * ens.keyword_result.confidence
    /\ ens.result.is_healthcare
         = (ens.bart_result.is_healthcare \/ ens.keyword_result.is_healthcare)

\* C25 witness: the two sub-classifiers disagree, with different
\* confidences, and the majority result is healthcare.
C25_Witness ==
  /\ BothLive
  /\ ens.config.voting_strategy = "majority"
  /\ ~ens.bart_raised
  /\ ens.bart_result.is_healthcare # ens.keyword_result.is_healthcare
  /\ ens.bart_result.confidence # ens.keyword_result.confidence
  /\ ens.result.is_healthcare

\* C27: under every voting strategy with both sub-classifiers live, when
\* both vote the same label the ensemble returns that label; two
\* non-healthcare votes never give is_healthcare = true.
C27_Unanimity ==
  (BothLive /\ ens.bart_result.is_healthcare = ens.keyword_result.is_healthcare)
    => ens.result.is_healthcare = ens.bart_result.is_healthcare

\* C30: under weighted voting with both sub-classifiers live the ensemble
\* confidence is never below 0.5 (the score sum when it exceeds 0.5, else
\* one minus the sum), so for every confidence_threshold <= 0.5
\* should_route_to_healthcare equals the ensemble's is_healthcare.
C30_WeightedConfidenceAtLeastHalf ==
  (BothLive /\ ens.result.method = "weighted_voting") =>
    LET r == ens.result
        score_sum == WeightedScore(ens.bart_result, ens.config.bart_weight)
                     + WeightedScore(ens.keyword_result, ens.config.keyword_weight)
    IN /\ r.confidence >= 50
       /\ r.confidence = IF score_sum > 50 THEN score_sum ELSE 100 - score_sum
       /\ \A threshold \in 0..ClassifierThreshold :
            (r.is_healthcare /\ r.confidence >= 10 * threshold) = r.is_healthcare
       /\ should_route_to_healthcare(
            [is_healthcare |-> r.is_healthcare,
             confidence |-> r.confidence \div 10]) = r.is_healthcare

\* C30 witness: BART votes healthcare, the weighted sum stays at or below
\* 0.5, and the non-healthcare result carries one minus the sum.
C30_Witness ==
  /\ BothLive
  /\ ens.result.method = "weighted_voting"
  /\ ~ens.bart_raised
  /\ ens.bart_result.is_healthcare
  /\ ~ens.result.is_healthcare
  /\ ens.result.confidence >= 50

\* ================================================ generator claims, continued

Generating == gen.pc = "generating"

\* C22: within one generate_dsl_query call the provider is asked to generate
\* at most 3 times; attempt k+1 is made only after k responses failed
\* extraction or validation, with one correction instruction appended to
\* the prompt per failure; after the third failure the call has ended with
\* a failed response; and the retry loop always terminates.
C22_RetryCeiling ==
  /\ [](/\ gen.attempt <= MaxRetries
        /\ gen.invalid_replies <= MaxRetries
        /\ Generating => /\ gen.attempt < MaxRetries
                          /\ gen.invalid_replies = gen.attempt
                          /\ gen.corrections = gen.attempt
        /\ gen.invalid_replies = MaxRetries =>
             /\ gen.pc = "returned"
             /\ ~gen.result.success)
  /\ (Generating ~> ~Generating)

\* C22 witness: the third response failed too and the call has returned.
C22_Witness ==
  /\ gen.pc = "returned"
  /\ gen.attempt = MaxRetries
  /\ gen.invalid_replies = MaxRetries
  /\ gen.corrections = MaxRetries - 1
  /\ ~gen.result.success

\* C23: _parse_structured_response returns the parse of the first strategy,
\* in the order direct, cleaning, regex, boundaries, whose output parses as
\* JSON and passes _validate_structured_data; a strategy whose output does
\* not parse or not validate passes the text on to the next; ValueError is
\* raised only when all four fail.
C23_ExtractionChainOrder ==
  LET order == <<"direct", "cleaning", "regex", "boundaries">>
      Accepts(i) == /\ gen.reply[order[i]].kind = "json"
                    /\ validate_structured_data(gen.reply[order[i]].data)
      accepted == {i \in 1..4 : Accepts(i)}
  IN IF accepted = {}
     THEN ~gen.parsed.ok
     ELSE /\ gen.parsed.ok
          /\ \E i \in accepted :
               /\ \A j \in accepted : i <= j
               /\ gen.parsed.data = gen.reply[order[i]].data

\* C23 witness: the direct parse gave JSON that failed validation, and the
\* parse of a later strategy was returned.
C23_Witness ==
  /\ gen.attempt > 0
  /\ gen.reply.direct.kind = "json"
  /\ ~validate_structured_data(gen.reply.direct.data)
  /\ gen.parsed.ok
  /\ gen.parsed.data = gen.reply.cleaning.data

Holds(seq, x) == \E i \in 1..Len(seq) : seq[i] = x

\* C24: the fallback document has a status=denied filter whenever the query
\* contains "denied" or "rejected", a status=approved filter whenever it
\* contains "approved" or "paid", a date range filter (gte now-1M) whenever
\* it contains "last month" or "recent", and a match clause for each of the
\* nouns "claims" and "provider" it contains; its size is 100 and its sort
\* is by date, descending.
C24_FallbackLexicalCues ==
  fb.pc = "returned" =>
    LET q == fb.input[1]
        dsl == fb.document.opensearch_dsl
    IN /\ ("denied" \in q \/ "rejected" \in q) => Holds(dsl.filter, "status=denied")
       /\ ("approved" \in q \/ "paid" \in q) => Holds(dsl.filter, "status=approved")
       /\ ("last month" \in q \/ "recent" \in q) => Holds(dsl.filter, "date>=now-1M")
       /\ "claims" \in q => Holds(dsl.must, "claim_type=healthcare")
       /\ "provider" \in q => Holds(dsl.must, "provider_type=healthcare")
       /\ dsl.size = FallbackSize
       /\ dsl.sort = EmptyBaseDsl.sort

====
